---- MODULE Spec2Model ----
(***************************************************************************)
(* Model of the asset-request workflow of src/index.js: the handlers       *)
(*   POST   /request-asset        (RequestAsset)                           *)
(*   PATCH  /requests/:id         (Decide...)                              *)
(*   PATCH  /return-asset/:id     (Return...)                              *)
(*   DELETE /remove-employee/:id  (Remove...)                              *)
(* Every `await` on a collection is one atomic database operation, and the *)
(* handlers of different HTTP calls interleave between their awaits.  A    *)
(* handler instance is a process p; pc[p] is the await it will run next.   *)
(* What a handler does between its last await and res.send touches no      *)
(* collection and is part of that last step.  Authentication middleware    *)
(* and the read-only listing routes write nothing to the collections       *)
(* modelled here and are left out, as are the date stamps and the display  *)
(* fields (names, images) that no handler branches on.                     *)
(* Spec interleaves the four routes; SeqSpec serves one call at a time;     *)
(* PaymentSpec adds POST /payments (Payment), which rewrites packageLimit; *)
(* FailSpec adds a database that may reject a write (StorageFailure).      *)
(***************************************************************************)
EXTENDS Integers, Sequences, FiniteSets, TLC

\* ---------------------------------------------------------------- bounds
NumProcs == 2          \* handler instances that may be in flight at once
MaxCalls == 4          \* calls of the four routes, over the whole run
MaxQuantity == 2       \* largest productQuantity an asset is created with

Procs == 1..NumProcs
Employees == {"e1", "e2"}
HRs == {"hr1"}
Assets == {"a1"}
ProductTypes == {"Returnable", "Non-returnable"}

\* line 95: the packageLimit an HR user is registered with.
DefaultPackageLimit == 5

\* req.body.newPackageLimit of POST /payments: the handler stores whatever it
\* gets.
NewPackageLimits == {1, 10}

\* req.body.status of PATCH /requests/:id: the handler stores whatever it gets.
StatusInputs == {"approved", "rejected", "cancelled"}

\* An _id that matches no document of any collection, now or later.
NoSuchId == 0

\* findOne's result when no document matches.
Null == [null |-> TRUE]

VARIABLES
    users,                 \* usersCollection: hr email -> [currentEmployees, packageLimit]
    assets,                \* assetsCollection: asset id -> [productQuantity, productType]
    requests,              \* requestsCollection: sequence, _id = index
    assignedAssets,        \* assignedAssetsCollection: sequence, _id = index
    employeeAffiliations,  \* employeeAffiliationsCollection: sequence, _id = index
    pc,                    \* per handler instance: the await it runs next
    id,                    \* per handler instance: req.params.id
    status,                \* per handler instance: req.body.status (decide)
    request,               \* per handler instance: `request` read at line 273
    assignedDoc,           \* per handler instance: `assignedDoc` read at line 352
    affiliation,           \* per handler instance: `affiliation` read at line 409
    initialQuantity,       \* history: the productQuantity each asset was created with
    calls                  \* history: calls of the four routes so far

vars == <<users, assets, requests, assignedAssets, employeeAffiliations,
          pc, id, status, request, assignedDoc, affiliation, initialQuantity, calls>>

db == <<users, assets, requests, assignedAssets, employeeAffiliations>>
history == <<initialQuantity, calls>>
locals == <<id, status, request, assignedDoc, affiliation>>

\* ------------------------------------------------------- collection helpers
RECURSIVE SumOver(_, _)
SumOver(f, S) ==
    IF S = {} THEN 0
    ELSE LET x == CHOOSE y \in S : TRUE IN f[x] + SumOver(f, S \ {x})

\* { $inc: { field: delta } } on one document: an atomic add.
IncAsSet(value, delta) == delta
Inc(value, delta) == value + delta

\* requestsCollection.findOne({ _id })
FindRequestWithoutFilter(rid) ==
    IF Len(requests) > 0 THEN requests[1] ELSE Null
FindRequest(rid) ==
    IF rid \in 1..Len(requests) THEN requests[rid] ELSE Null

\* assignedAssetsCollection.findOne({ _id })
FindAssigned(aid) ==
    IF aid \in 1..Len(assignedAssets) THEN assignedAssets[aid] ELSE Null

\* employeeAffiliationsCollection.findOne({ _id }); a deleted document is
\* kept as a tombstone so that its _id is never handed out again.
FindAffiliationById(fid) ==
    IF fid \in 1..Len(employeeAffiliations) /\ ~employeeAffiliations[fid].deleted
    THEN employeeAffiliations[fid] ELSE Null

\* The live documents matching { employeeEmail, hrEmail }.
AffiliationsOf(e, h) ==
    {k \in 1..Len(employeeAffiliations) :
        /\ ~employeeAffiliations[k].deleted
        /\ employeeAffiliations[k].employeeEmail = e
        /\ employeeAffiliations[k].hrEmail = h}

\* employeeAffiliationsCollection.findOne(affiliationQuery) is truthy.
ExistingAffiliationUnchecked(e, h) == FALSE
ExistingAffiliation(e, h) == AffiliationsOf(e, h) # {}

AssignmentsOfRequest(rid) ==
    {k \in 1..Len(assignedAssets) : assignedAssets[k].requestId = rid}

AssignmentsOfAsset(a) ==
    {k \in 1..Len(assignedAssets) : assignedAssets[k].assetId = a}

AssignmentsOfPair(e, h) ==
    {k \in 1..Len(assignedAssets) :
        assignedAssets[k].employeeEmail = e /\ assignedAssets[k].hrEmail = h}

\* Stock increments /return-asset has performed for asset a.
ReturnsOfAsset(a) ==
    SumOver([k \in 1..Len(assignedAssets) |-> assignedAssets[k].returns],
            AssignmentsOfAsset(a))

AllIdle == \A p \in Procs : pc[p] = "idle"

\* One more call arrives, while the run's budget of calls lasts.
Call ==
    /\ calls < MaxCalls
    /\ calls' = calls + 1

\* The server takes a call of a multi-step route on its lowest free handler
\* instance (the instances are interchangeable).
Accept(p) ==
    /\ Call
    /\ \A q \in Procs : q < p => pc[q] # "idle"

\* ------------------------------------------------------------------- Init
Init ==
    /\ users = [h \in HRs |-> [currentEmployees |-> 0,
                                packageLimit |-> DefaultPackageLimit]]
    /\ calls = 0
    /\ \E q \in [Assets -> 1..MaxQuantity], t \in [Assets -> ProductTypes] :
         /\ assets = [a \in Assets |-> [productQuantity |-> q[a], productType |-> t[a]]]
         /\ initialQuantity = q
    /\ requests = <<>>
    /\ assignedAssets = <<>>
    /\ employeeAffiliations = <<>>
    /\ pc = [p \in Procs |-> "idle"]
    /\ id = [p \in Procs |-> 0]
    /\ status = [p \in Procs |-> "none"]
    /\ request = [p \in Procs |-> Null]
    /\ assignedDoc = [p \in Procs |-> Null]
    /\ affiliation = [p \in Procs |-> Null]

\* The handler moves on to its next await.
Goto(p, label) ==
    /\ pc' = [pc EXCEPT ![p] = label]
    /\ UNCHANGED locals

\* The handler sends its response (res.send) and ends: its locals are gone.
Finish(p) ==
    /\ pc' = [pc EXCEPT ![p] = "idle"]
    /\ id' = [id EXCEPT ![p] = 0]
    /\ status' = [status EXCEPT ![p] = "none"]
    /\ request' = [request EXCEPT ![p] = Null]
    /\ assignedDoc' = [assignedDoc EXCEPT ![p] = Null]
    /\ affiliation' = [affiliation EXCEPT ![p] = Null]

\* ------------------------------------------------- POST /request-asset
\* lines 215-223: insertOne with requestStatus "pending".
RequestAsset(e, a, h) ==
    /\ Call
    /\ requests' = Append(requests,
           [requesterEmail |-> e, assetId |-> a, hrEmail |-> h,
            requestStatus |-> "pending"])
    /\ UNCHANGED <<users, assets, assignedAssets, employeeAffiliations,
                   pc, locals, initialQuantity>>

\* ------------------------------------------------- PATCH /requests/:id
\* line 273: findOne; lines 274-275: 404 when the request does not exist.
DecideFindRequest(p, rid, s) ==
    /\ pc[p] = "idle"
    /\ Accept(p)
    /\ id' = [id EXCEPT ![p] = rid]
    /\ status' = [status EXCEPT ![p] = s]
    /\ request' = [request EXCEPT ![p] = FindRequest(rid)]
    /\ pc' = [pc EXCEPT ![p] = IF FindRequest(rid) = Null THEN "d_404" ELSE "d_update"]
    /\ UNCHANGED <<db, assignedDoc, affiliation, initialQuantity>>

\* line 275: res.status(404).send(...).
DecideNotFound(p) ==
    /\ pc[p] = "d_404"
    /\ Finish(p)
    /\ UNCHANGED <<db, history>>

\* line 280: status === "approved".
IsApprovedUntested(s) == TRUE
IsApproved(s) == s = "approved"

\* line 277: updateOne(filter, { $set: { requestStatus: status, ... } }),
\* the filter being { _id } alone, whatever the document's requestStatus;
\* line 280: the side effects run when status is "approved", otherwise
\* line 336 sends the result.
DecideUpdateStatus(p) ==
    /\ pc[p] = "d_update"
    /\ requests' = [requests EXCEPT ![id[p]].requestStatus = status[p]]
    /\ IF IsApproved(status[p]) THEN Goto(p, "d_decrement") ELSE Finish(p)
    /\ UNCHANGED <<users, assets, assignedAssets, employeeAffiliations, history>>

\* lines 282-285: $inc productQuantity by -1 on the request's asset.
DecideDecrement(p) ==
    /\ pc[p] = "d_decrement"
    /\ assets' = [assets EXCEPT ![request[p].assetId].productQuantity = Inc(@, -1)]
    /\ Goto(p, "d_assign")
    /\ UNCHANGED <<users, requests, assignedAssets, employeeAffiliations, history>>

\* lines 288-300: insert the assignment.  requestId and returns are history
\* fields (the request the hand-off came from, the stock increments made for
\* it); the stored document has neither.
DecideAssign(p) ==
    /\ pc[p] = "d_assign"
    /\ assignedAssets' = Append(assignedAssets,
           [assetId |-> request[p].assetId,
            employeeEmail |-> request[p].requesterEmail,
            hrEmail |-> request[p].hrEmail,
            status |-> "assigned",
            requestId |-> id[p],
            returns |-> 0])
    /\ Goto(p, "d_findAffiliation")
    /\ UNCHANGED <<users, assets, requests, employeeAffiliations, history>>

\* lines 303-324: look the pair up; when it is there, line 336 sends the
\* result.  Otherwise read the HR user (for its companyLogo, which nothing
\* here uses) and go on to the two writes.
DecideFindAffiliation(p) ==
    /\ pc[p] = "d_findAffiliation"
    /\ IF ExistingAffiliation(request[p].requesterEmail, request[p].hrEmail)
       THEN Finish(p)
       ELSE Goto(p, "d_incEmployees")
    /\ UNCHANGED <<db, history>>

\* lines 327-330: $inc currentEmployees by 1.
DecideIncEmployees(p) ==
    /\ pc[p] = "d_incEmployees"
    /\ users' = [users EXCEPT ![request[p].hrEmail].currentEmployees = Inc(@, 1)]
    /\ Goto(p, "d_insertAffiliation")
    /\ UNCHANGED <<assets, requests, assignedAssets, employeeAffiliations, history>>

\* line 332: insert the affiliation; line 336: send the result.
DecideInsertAffiliation(p) ==
    /\ pc[p] = "d_insertAffiliation"
    /\ employeeAffiliations' = Append(employeeAffiliations,
           [employeeEmail |-> request[p].requesterEmail,
            hrEmail |-> request[p].hrEmail,
            deleted |-> FALSE])
    /\ Finish(p)
    /\ UNCHANGED <<users, assets, requests, assignedAssets, history>>

\* ------------------------------------------------- PATCH /return-asset/:id
\* line 347: { $set: { status: "returned", returnDate: new Date() } }.
SetReturnedForgotten(doc) == doc
SetReturned(doc) == [doc EXCEPT !.status = "returned"]

\* lines 345-348: set status "returned" on the document with this _id, if
\* there is one, whatever its status is.
ReturnUpdateStatus(p, aid) ==
    /\ pc[p] = "idle"
    /\ Accept(p)
    /\ id' = [id EXCEPT ![p] = aid]
    /\ assignedAssets' = IF FindAssigned(aid) # Null
                         THEN [assignedAssets EXCEPT ![aid] = SetReturned(@)]
                         ELSE assignedAssets
    /\ pc' = [pc EXCEPT ![p] = "r_find"]
    /\ UNCHANGED <<users, assets, requests, employeeAffiliations,
                   status, request, assignedDoc, affiliation, initialQuantity>>

\* lines 352-355: read the document back; without one, line 362 sends.
ReturnFind(p) ==
    /\ pc[p] = "r_find"
    /\ IF FindAssigned(id[p]) = Null
       THEN Finish(p)
       ELSE /\ assignedDoc' = [assignedDoc EXCEPT ![p] = FindAssigned(id[p])]
            /\ pc' = [pc EXCEPT ![p] = "r_increment"]
            /\ UNCHANGED <<id, status, request, affiliation>>
    /\ UNCHANGED <<db, history>>

\* lines 356-359: $inc productQuantity by 1 on the document's asset;
\* line 362: send the result.
ReturnIncrement(p) ==
    /\ pc[p] = "r_increment"
    /\ assets' = [assets EXCEPT ![assignedDoc[p].assetId].productQuantity = Inc(@, 1)]
    /\ assignedAssets' = [assignedAssets EXCEPT ![id[p]].returns = @ + 1]
    /\ Finish(p)
    /\ UNCHANGED <<users, requests, employeeAffiliations, history>>

\* ------------------------------------------------- DELETE /remove-employee/:id
\* lines 409-413: findOne; 404 when the affiliation does not exist.
RemoveFindAffiliation(p, fid) ==
    /\ pc[p] = "idle"
    /\ Accept(p)
    /\ id' = [id EXCEPT ![p] = fid]
    /\ affiliation' = [affiliation EXCEPT ![p] = FindAffiliationById(fid)]
    /\ pc' = [pc EXCEPT ![p] =
                IF FindAffiliationById(fid) = Null THEN "x_404" ELSE "x_delete"]
    /\ UNCHANGED <<db, status, request, assignedDoc, initialQuantity>>

\* line 413: res.status(404).send(...).
RemoveNotFound(p) ==
    /\ pc[p] = "x_404"
    /\ Finish(p)
    /\ UNCHANGED <<db, history>>

\* lines 416-418: deleteOne({ _id }).
RemoveDelete(p) ==
    /\ pc[p] = "x_delete"
    /\ employeeAffiliations' = [employeeAffiliations EXCEPT ![id[p]].deleted = TRUE]
    /\ Goto(p, "x_decEmployees")
    /\ UNCHANGED <<users, assets, requests, assignedAssets, history>>

\* lines 421-424: $inc currentEmployees by -1; line 429: send the result.
RemoveDecEmployees(p) ==
    /\ pc[p] = "x_decEmployees"
    /\ users' = [users EXCEPT ![affiliation[p].hrEmail].currentEmployees = Inc(@, -1)]
    /\ Finish(p)
    /\ UNCHANGED <<assets, requests, assignedAssets, employeeAffiliations, history>>

\* ------------------------------------------------- POST /payments
\* lines 462-469: record the payment (a collection nothing else reads) and
\* $set the HR user's packageLimit to newPackageLimit.  The call adds no
\* document to the collections above and is not counted by `calls`.
Payment(h, n) ==
    /\ users' = [users EXCEPT ![h].packageLimit = n]
    /\ UNCHANGED <<assets, requests, assignedAssets, employeeAffiliations,
                   pc, locals, history>>

\* ------------------------------------------------- a rejected write
\* The awaits of PATCH /requests/:id that write an approval's side effects:
\* lines 282, 300, 327 and 332.
CascadeWritePcs == {"d_decrement", "d_assign", "d_incEmployees", "d_insertAffiliation"}

\* The write the handler is awaiting is rejected by the driver.  No handler
\* has a try/catch and the app has no error middleware, so the rejection
\* leaves the async handler unhandled: nothing of the handler runs after it
\* (no later write, no res.send at line 336), and nothing it wrote before is
\* undone.  What becomes of the process is the runtime's choice: it goes on
\* with the other handlers, or it exits and every handler in flight ends
\* with it, to be started again.
StorageFailure(p, exits) ==
    /\ pc[p] \in CascadeWritePcs
    /\ LET gone == IF exits THEN Procs ELSE {p} IN
         /\ pc' = [q \in Procs |-> IF q \in gone THEN "idle" ELSE pc[q]]
         /\ id' = [q \in Procs |-> IF q \in gone THEN 0 ELSE id[q]]
         /\ status' = [q \in Procs |-> IF q \in gone THEN "none" ELSE status[q]]
         /\ request' = [q \in Procs |-> IF q \in gone THEN Null ELSE request[q]]
         /\ assignedDoc' = [q \in Procs |-> IF q \in gone THEN Null ELSE assignedDoc[q]]
         /\ affiliation' = [q \in Procs |-> IF q \in gone THEN Null ELSE affiliation[q]]
    /\ UNCHANGED <<db, history>>

\* ------------------------------------------------------------ specification
\* The _ids a caller may send: those of the collection's documents, and one
\* that matches nothing.
RequestIds == (1..Len(requests)) \cup {NoSuchId}
AssignedIds == (1..Len(assignedAssets)) \cup {NoSuchId}
AffiliationIds == (1..Len(employeeAffiliations)) \cup {NoSuchId}

Next ==
    \/ \E e \in Employees, a \in Assets, h \in HRs : RequestAsset(e, a, h)
    \/ \E p \in Procs, rid \in RequestIds, s \in StatusInputs :
          DecideFindRequest(p, rid, s)
    \/ \E p \in Procs : DecideNotFound(p)
    \/ \E p \in Procs : DecideUpdateStatus(p)
    \/ \E p \in Procs : DecideDecrement(p)
    \/ \E p \in Procs : DecideAssign(p)
    \/ \E p \in Procs : DecideFindAffiliation(p)
    \/ \E p \in Procs : DecideIncEmployees(p)
    \/ \E p \in Procs : DecideInsertAffiliation(p)
    \/ \E p \in Procs, aid \in AssignedIds : ReturnUpdateStatus(p, aid)
    \/ \E p \in Procs : ReturnFind(p)
    \/ \E p \in Procs : ReturnIncrement(p)
    \/ \E p \in Procs, fid \in AffiliationIds : RemoveFindAffiliation(p, fid)
    \/ \E p \in Procs : RemoveNotFound(p)
    \/ \E p \in Procs : RemoveDelete(p)
    \/ \E p \in Procs : RemoveDecEmployees(p)

Spec == Init /\ [][Next]_vars

\* The four routes together with POST /payments, the one other route that
\* writes to a field read below (packageLimit; no handler of the four routes
\* reads or writes it).
PaymentNext ==
    \/ Next
    \/ \E h \in HRs, n \in NewPackageLimits : Payment(h, n)

PaymentSpec == Init /\ [][PaymentNext]_vars

\* The four routes with a database whose writes may be rejected.
FailNext ==
    \/ Next
    \/ \E p \in Procs, exits \in BOOLEAN : StorageFailure(p, exits)

FailSpec == Init /\ [][FailNext]_vars

\* The same routes with one call served at a time: a call is taken only when
\* no handler is between two awaits.
SeqNext ==
    \/ AllIdle /\ \E e \in Employees, a \in Assets, h \in HRs : RequestAsset(e, a, h)
    \/ AllIdle /\ \E p \in Procs, rid \in RequestIds, s \in StatusInputs :
          DecideFindRequest(p, rid, s)
    \/ \E p \in Procs : DecideNotFound(p)
    \/ \E p \in Procs : DecideUpdateStatus(p)
    \/ \E p \in Procs : DecideDecrement(p)
    \/ \E p \in Procs : DecideAssign(p)
    \/ \E p \in Procs : DecideFindAffiliation(p)
    \/ \E p \in Procs : DecideIncEmployees(p)
    \/ \E p \in Procs : DecideInsertAffiliation(p)
    \/ AllIdle /\ \E p \in Procs, aid \in AssignedIds : ReturnUpdateStatus(p, aid)
    \/ \E p \in Procs : ReturnFind(p)
    \/ \E p \in Procs : ReturnIncrement(p)
    \/ AllIdle /\ \E p \in Procs, fid \in AffiliationIds : RemoveFindAffiliation(p, fid)
    \/ \E p \in Procs : RemoveNotFound(p)
    \/ \E p \in Procs : RemoveDelete(p)
    \/ \E p \in Procs : RemoveDecEmployees(p)

SeqSpec == Init /\ [][SeqNext]_vars

\* ------------------------------------------------------------------ claims
\* The awaits of PATCH /requests/:id after the request was read, and those of
\* the approval side effects (lines 280-334).
DecidePcs == {"d_update", "d_decrement", "d_assign", "d_findAffiliation",
              "d_incEmployees", "d_insertAffiliation"}
CascadePcs == DecidePcs \ {"d_update"}

ApprovedRequestsOf(a) ==
    {r \in 1..Len(requests) :
        requests[r].assetId = a /\ requests[r].requestStatus = "approved"}

RemovedAffiliationsOf(e, h) ==
    {k \in 1..Len(employeeAffiliations) :
        /\ employeeAffiliations[k].deleted
        /\ employeeAffiliations[k].employeeEmail = e
        /\ employeeAffiliations[k].hrEmail = h}

AffiliatedEmployees(h) == {e \in Employees : AffiliationsOf(e, h) # {}}

\* C1: a decide call that found the request already decided (not pending)
\* changes nothing: no step of it writes to any collection.
C1_DecideOnDecidedRequestWritesNothing ==
    [][\A p \in Procs :
          (/\ pc[p] \in DecidePcs
           /\ pc'[p] # pc[p]
           /\ request[p].requestStatus # "pending") => UNCHANGED db]_vars

\* C2: of the decide(approved) calls that read the same request while it was
\* pending, at most one runs the approval side effects.
C2_OneCascadePerPendingRequest ==
    \A r \in 1..Len(requests) :
        Cardinality({p \in Procs :
            /\ pc[p] \in CascadePcs
            /\ id[p] = r
            /\ request[p].requestStatus = "pending"}) <= 1

\* C3: no asset's productQuantity is ever negative.
C3_QuantityNeverNegative ==
    \A a \in Assets : assets[a].productQuantity >= 0

\* C4: of the requests for an asset created with one unit (and never handed
\* back), at most one is approved, and once the calls are over and one is
\* approved the quantity is 0.
C4_LastUnitGrantedOnce ==
    \A a \in Assets :
        (initialQuantity[a] = 1 /\ ReturnsOfAsset(a) = 0) =>
            /\ Cardinality(ApprovedRequestsOf(a)) <= 1
            /\ (AllIdle /\ ApprovedRequestsOf(a) # {}) => assets[a].productQuantity = 0

\* C5: once the calls are over, each asset's productQuantity is the quantity
\* it was created with, minus one for every approval that handed it out
\* (each left one assignment), plus one for every stock increment of a
\* return: no decrement is lost, whatever the interleaving.
C5_DecrementsNeverLost ==
    AllIdle =>
        \A a \in Assets :
            assets[a].productQuantity =
                initialQuantity[a] - Cardinality(AssignmentsOfAsset(a)) + ReturnsOfAsset(a)

\* Two different requests for one asset with enough stock were approved,
\* nothing was handed back, and the calls are over.
C5_Witness ==
    /\ AllIdle
    /\ \E a \in Assets :
         /\ initialQuantity[a] >= 2
         /\ ReturnsOfAsset(a) = 0
         /\ \E j, k \in AssignmentsOfAsset(a) :
               assignedAssets[j].requestId # assignedAssets[k].requestId
         /\ assets[a].productQuantity = initialQuantity[a] - 2

\* C6: with the calls served one after another, a pair (employee, HR) never
\* has two affiliations; once some request of the pair was approved (and the
\* pair never removed) it has exactly one; and between calls the HR's
\* currentEmployees is the number of employees affiliated to it, not the
\* number of approvals.
C6_OneAffiliationPerPairInSequence ==
    /\ \A e \in Employees, h \in HRs :
          /\ Cardinality(AffiliationsOf(e, h)) <= 1
          /\ (AllIdle /\ AssignmentsOfPair(e, h) # {} /\ RemovedAffiliationsOf(e, h) = {})
                => Cardinality(AffiliationsOf(e, h)) = 1
    /\ AllIdle =>
          \A h \in HRs : users[h].currentEmployees = Cardinality(AffiliatedEmployees(h))

\* Two different requests of one pair were approved, one after the other.
C6_Witness ==
    /\ AllIdle
    /\ \E e \in Employees, h \in HRs :
         /\ \E j, k \in AssignmentsOfPair(e, h) :
               assignedAssets[j].requestId # assignedAssets[k].requestId
         /\ Cardinality(AffiliationsOf(e, h)) = 1
         /\ users[h].currentEmployees = 1

\* C7: a pair (employeeEmail, hrEmail) has at most one affiliation, in every
\* reachable state.
C7_PairUniqueInRegistry ==
    \A e \in Employees, h \in HRs : Cardinality(AffiliationsOf(e, h)) <= 1

\* C8: the stock is incremented at most once for an assignment, however
\* often /return-asset is called on it.
C8_StockReturnedOncePerAssignment ==
    \A k \in 1..Len(assignedAssets) : assignedAssets[k].returns <= 1

\* C9: when a returnable asset was handed out once and that assignment handed
\* back once, and the calls are over, the asset's productQuantity is what it
\* was before the approval, and the one assignment of the request is
\* "returned".
C9_ApproveThenReturnRestoresStock ==
    \A a \in Assets :
        \A k \in AssignmentsOfAsset(a) :
            (/\ AllIdle
             /\ assets[a].productType = "Returnable"
             /\ AssignmentsOfAsset(a) = {k}
             /\ assignedAssets[k].returns = 1) =>
                /\ assets[a].productQuantity = initialQuantity[a]
                /\ assignedAssets[k].status = "returned"
                /\ AssignmentsOfRequest(assignedAssets[k].requestId) = {k}

\* A returnable asset was approved once and handed back once.
C9_Witness ==
    /\ AllIdle
    /\ \E a \in Assets :
         /\ assets[a].productType = "Returnable"
         /\ \E k \in AssignmentsOfAsset(a) :
              /\ AssignmentsOfAsset(a) = {k}
              /\ assignedAssets[k].returns = 1
              /\ assignedAssets[k].status = "returned"
              /\ requests[assignedAssets[k].requestId].requestStatus = "approved"

\* C10: no HR user's currentEmployees is ever negative.
C10_SeatCountNeverNegative ==
    \A h \in HRs : users[h].currentEmployees >= 0

\* C11: no step that raises an HR user's currentEmployees takes it past that
\* user's packageLimit (so a seat count within the limit stays within it).
C11_NoSeatBeyondPackageLimit ==
    [][\A h \in HRs :
          users'[h].currentEmployees > users[h].currentEmployees =>
              users'[h].currentEmployees <= users'[h].packageLimit]_vars

\* C12: a decide call whose id matches no request answers 404 right after
\* its read, and neither step of it writes to any collection.
C12_DecideOnMissingRequestIsNotFound ==
    [][\A p \in Procs :
          /\ (/\ pc[p] = "idle"
              /\ pc'[p] \in {"d_404", "d_update"}
              /\ id'[p] \notin 1..Len(requests))
                 => (pc'[p] = "d_404" /\ UNCHANGED db)
          /\ (pc[p] = "d_404" /\ pc'[p] # "d_404")
                 => (pc'[p] = "idle" /\ UNCHANGED db)]_vars

\* A decide call on an id that matches none of the requests there are is
\* about to answer 404.
C12_Witness ==
    \E p \in Procs :
        pc[p] = "d_404" /\ Len(requests) > 0 /\ id[p] \notin 1..Len(requests)

\* C13: the write of a decide call with status "rejected" on a pending
\* request sets that request's requestStatus, ends the call, and leaves
\* every other request, the assets, the assignments, the affiliations and
\* the users as they were.
C13_RejectChangesOnlyTheRequest ==
    [][\A p \in Procs :
          (/\ pc[p] = "d_update"
           /\ pc'[p] # "d_update"
           /\ status[p] = "rejected"
           /\ requests[id[p]].requestStatus = "pending")
              => /\ pc'[p] = "idle"
                 /\ requests' = [requests EXCEPT ![id[p]].requestStatus = "rejected"]
                 /\ UNCHANGED <<users, assets, assignedAssets, employeeAffiliations>>]_vars

\* A pending request was rejected, and nothing was ever handed out.
C13_Witness ==
    /\ AllIdle
    /\ \E r \in 1..Len(requests) : requests[r].requestStatus = "rejected"
    /\ assignedAssets = <<>>
    /\ employeeAffiliations = <<>>

\* C14: an assignment becomes "returned" only from "assigned" and only when
\* its asset is Returnable; the stock is incremented for it only then, and
\* only by the call that returned it; and a "returned" assignment stays
\* "returned".
C14_ReturnedOnlyFromAssignedReturnable ==
    [][\A k \in 1..Len(assignedAssets) :
          /\ (assignedAssets[k].status # "returned" /\ assignedAssets'[k].status = "returned")
                => /\ assignedAssets[k].status = "assigned"
                   /\ assets[assignedAssets[k].assetId].productType = "Returnable"
          /\ assignedAssets'[k].returns > assignedAssets[k].returns
                => /\ assignedAssets[k].returns = 0
                   /\ assets[assignedAssets[k].assetId].productType = "Returnable"
          /\ assignedAssets[k].status = "returned"
                => assignedAssets'[k].status = "returned"]_vars

\* C15: DELETE /remove-employee/:id answers 404 and writes nothing when the
\* id matches no affiliation; otherwise its deleteOne deletes exactly that
\* affiliation, its $inc lowers that HR's currentEmployees by exactly 1, and
\* no request, assignment or productQuantity changes at any of its steps.
C15_RemoveDeletesOneRecordAndOneSeat ==
    [][\A p \in Procs :
          /\ (pc[p] = "idle" /\ pc'[p] \in {"x_404", "x_delete"})
                => /\ UNCHANGED db
                   /\ pc'[p] = "x_404" <=> FindAffiliationById(id'[p]) = Null
          /\ (pc[p] = "x_404" /\ pc'[p] # "x_404")
                => (pc'[p] = "idle" /\ UNCHANGED db)
          /\ (pc[p] = "x_delete" /\ pc'[p] # "x_delete")
                => /\ ~employeeAffiliations[id[p]].deleted
                   /\ employeeAffiliations' =
                         [employeeAffiliations EXCEPT ![id[p]].deleted = TRUE]
                   /\ UNCHANGED <<users, assets, requests, assignedAssets>>
          /\ (pc[p] = "x_decEmployees" /\ pc'[p] # "x_decEmployees")
                => /\ users' = [users EXCEPT
                         ![employeeAffiliations[id[p]].hrEmail].currentEmployees = @ - 1]
                   /\ UNCHANGED <<assets, requests, assignedAssets,
                                  employeeAffiliations>>]_vars

\* The awaits of DELETE /remove-employee/:id after the affiliation was read.
RemovePcs == {"x_404", "x_delete", "x_decEmployees"}

\* The live documents of employeeAffiliations whose hrEmail is h.
AffiliationsOfHR(h) ==
    {k \in 1..Len(employeeAffiliations) :
        ~employeeAffiliations[k].deleted /\ employeeAffiliations[k].hrEmail = h}

\* C16: whenever no handler of PATCH /requests/:id or of
\* DELETE /remove-employee/:id is between two awaits, each HR's
\* currentEmployees (0 at registration) equals the number of affiliation
\* documents whose hrEmail is that HR.
C16_SeatCountMatchesRegistry ==
    (\A p \in Procs : pc[p] \notin DecidePcs \cup RemovePcs \cup {"d_404"})
        => \A h \in HRs :
              users[h].currentEmployees = Cardinality(AffiliationsOfHR(h))

\* C17: every request has at most one assignment document; a request whose
\* requestStatus is "pending" or "rejected" has none; and when no handler is
\* between two awaits, a request whose requestStatus is "approved" has
\* exactly one.
C17_AssignmentsOnlyForApprovedRequests ==
    \A r \in 1..Len(requests) :
        /\ Cardinality(AssignmentsOfRequest(r)) <= 1
        /\ requests[r].requestStatus \in {"pending", "rejected"}
              => AssignmentsOfRequest(r) = {}
        /\ (AllIdle /\ requests[r].requestStatus = "approved")
              => Cardinality(AssignmentsOfRequest(r)) = 1

\* The assignment documents of asset a whose status is "assigned".
AssignedOfAsset(a) ==
    {k \in AssignmentsOfAsset(a) : assignedAssets[k].status = "assigned"}

\* C18: whenever no handler is between two awaits, each asset's
\* productQuantity plus the number of its assignments with status "assigned"
\* equals the productQuantity the asset was created with.
C18_StockConservation ==
    AllIdle =>
        \A a \in Assets :
            assets[a].productQuantity + Cardinality(AssignedOfAsset(a))
                = initialQuantity[a]

\* C19: every request's requestStatus is one of "pending", "approved",
\* "rejected" and "returned".
C19_RequestStatusInDomain ==
    \A r \in 1..Len(requests) :
        requests[r].requestStatus \in {"pending", "approved", "rejected", "returned"}

\* A handler of PATCH /requests/:id is between two awaits on request r.
DecideInFlight(r) == \E p \in Procs : pc[p] \in DecidePcs /\ id[p] = r

\* C20: a request is not left "approved" with a side effect of the approval
\* missing: when no handler of PATCH /requests/:id is at work on it, an
\* approved request has its assignment, and its requester has (or has had,
\* before a removal) the affiliation with the HR.
C20_NoApprovedRequestWithoutCascade ==
    \A r \in 1..Len(requests) :
        (requests[r].requestStatus = "approved" /\ ~DecideInFlight(r))
            => /\ AssignmentsOfRequest(r) # {}
               /\ \/ ExistingAffiliation(requests[r].requesterEmail, requests[r].hrEmail)
                  \/ RemovedAffiliationsOf(requests[r].requesterEmail,
                                           requests[r].hrEmail) # {}

====
